---- MODULE Spec2Model ----
(***************************************************************************)
(* Model of the Smart AI Request Router (scripts/smart_router.py) and of   *)
(* the gateway handler that drives it (gateway/app.py).                    *)
(*                                                                         *)
(* Python floats are IEEE-754 doubles.  Every double the router computes   *)
(* with is a multiple of 2^-56 (the literals 0.1 .. 1.0 and their sums),   *)
(* so a double is kept as a sign and a magnitude counted in units of       *)
(* 2^-56, the magnitude split in two limbs of 28 bits (TLC's integers have *)
(* 32 bits).  Sums and products are computed exactly and then rounded to   *)
(* 53 significant bits, ties to even, as the hardware does.                *)
(***************************************************************************)
EXTENDS Integers, Sequences, FiniteSets, TLC

\* ------------------------------------------------------------------ bounds
\* The scores handed to select_model directly are the doubles k/ScoreDen.
ScoreDen == 20
\* The Outcome Recorder keeps at most MaxTasks entries in the model.
MaxTasks == 1

\* ------------------------------------------------------------ IEEE doubles
LimbBits == 2 * 14
LimbBase == 2^LimbBits
HalfLimb == 2^14
\* 52 stored bits and the implicit leading one
Mantissa == 52 + 1

RECURSIVE BitLen(_)
BitLen(n) == IF n = 0 THEN 0 ELSE 1 + BitLen(n \div 2)

\* The magnitude h*2^28 + l (plus, when sticky, a fraction of a unit strictly
\* between 0 and 1) rounded to 53 significant bits, ties to even.
RoundMag(h, l, sticky) ==
    LET len  == IF h > 0 THEN LimbBits + BitLen(h) ELSE BitLen(l)
        sh   == len - Mantissa
    IN  IF sh <= 0
        THEN <<h, l>>
        ELSE LET q    == 2^sh
                 r    == l % q
                 base == l - r
                 half == q \div 2
                 up   == \/ r > half
                         \/ r = half /\ sticky
                         \/ r = half /\ ~sticky /\ (base \div q) % 2 = 1
                 l2   == IF up THEN base + q ELSE base
             IN  IF l2 >= LimbBase THEN <<h + 1, l2 - LimbBase>> ELSE <<h, l2>>

MkF(neg, m) ==
    [neg |-> neg /\ (m[1] # 0 \/ m[2] # 0), h |-> m[1], l |-> m[2]]

\* The double nearest to num/den (0 <= num, 0 < den <= 1000), by long division
\* in base 2^14; this is what Python's parser makes of a decimal literal of at
\* least 2^-4.  Below 2^-4 it is the nearest multiple of 2^-56.
Dec(num, den) ==
    LET d0 == num \div den
        r0 == num % den
        d1 == (r0 * HalfLimb) \div den
        r1 == (r0 * HalfLimb) % den
        d2 == (r1 * HalfLimb) \div den
        r2 == (r1 * HalfLimb) % den
        d3 == (r2 * HalfLimb) \div den
        r3 == (r2 * HalfLimb) % den
        d4 == (r3 * HalfLimb) \div den
        r4 == (r3 * HalfLimb) % den
        h  == d0 * LimbBase + d1 * HalfLimb + d2
        l  == d3 * HalfLimb + d4
        len == IF h > 0 THEN LimbBits + BitLen(h) ELSE BitLen(l)
        up == 2 * r4 > den \/ (2 * r4 = den /\ l % 2 = 1)
        m  == IF len > Mantissa
              THEN RoundMag(h, l, r4 # 0)
              ELSE IF up
                   THEN (IF l + 1 >= LimbBase THEN <<h + 1, 0>> ELSE <<h, l + 1>>)
                   ELSE <<h, l>>
    IN  MkF(FALSE, m)

FZero == MkF(FALSE, <<0, 0>>)
FNeg(a) == MkF(~a.neg, <<a.h, a.l>>)

MagLt(a, b) == a.h < b.h \/ (a.h = b.h /\ a.l < b.l)

MagAdd(a, b) ==
    LET l == a.l + b.l
    IN  IF l >= LimbBase THEN <<a.h + b.h + 1, l - LimbBase>> ELSE <<a.h + b.h, l>>

\* a - b for magnitudes with b <= a
MagSub(a, b) ==
    IF a.l >= b.l THEN <<a.h - b.h, a.l - b.l>>
                  ELSE <<a.h - b.h - 1, a.l + LimbBase - b.l>>

\* x + y on doubles
FAdd(a, b) ==
    IF a.neg = b.neg
    THEN LET s == MagAdd(a, b) IN MkF(a.neg, RoundMag(s[1], s[2], FALSE))
    ELSE IF MagLt(a, b)
         THEN LET s == MagSub(b, a) IN MkF(b.neg, RoundMag(s[1], s[2], FALSE))
         ELSE LET s == MagSub(a, b) IN MkF(a.neg, RoundMag(s[1], s[2], FALSE))

\* n * x for an int n >= 0 and a double x: the exact product, rounded once
RECURSIVE MagTimes(_, _)
MagTimes(n, a) ==
    IF n = 0 THEN <<0, 0>>
    ELSE LET p == MagTimes(n - 1, a)
         IN  MagAdd([h |-> p[1], l |-> p[2]], a)

FMulInt(n, a) ==
    LET p == MagTimes(n, a) IN MkF(a.neg, RoundMag(p[1], p[2], FALSE))

\* x < y, x <= y, min and max on doubles
FLt(a, b) ==
    IF a.neg /\ ~b.neg THEN TRUE
    ELSE IF ~a.neg /\ b.neg THEN FALSE
    ELSE IF a.neg THEN MagLt(b, a) ELSE MagLt(a, b)
FLe(a, b) == ~FLt(b, a)
FMin(a, b) == IF FLt(b, a) THEN b ELSE a
FMax(a, b) == IF FLt(a, b) THEN b ELSE a

\* ------------------------------------------------------------ configuration
\* SmartRouter.MODELS; cost_per_token is kept in dollars per million tokens.
ModelNames == {"tinyllama", "phi2", "bitnet-2b", "mistral-7b-ternary", "claude-sonnet"}

MODELS ==
    [m \in ModelNames |->
       CASE m = "tinyllama" ->
              [backend |-> "local", max_complexity |-> Dec(3, 10), cost_per_token |-> 0]
         [] m = "phi2" ->
              [backend |-> "local", max_complexity |-> Dec(6, 10), cost_per_token |-> 0]
         [] m = "bitnet-2b" ->
              [backend |-> "ternary", max_complexity |-> Dec(5, 10), cost_per_token |-> 0]
         [] m = "mistral-7b-ternary" ->
              [backend |-> "ternary", max_complexity |-> Dec(8, 10), cost_per_token |-> 0]
         [] m = "claude-sonnet" ->
              [backend |-> "cloud", max_complexity |-> Dec(10, 10), cost_per_token |-> 3]]

\* ------------------------------------------------------------- select_model
\* (variant: the standard policy with the ternary policy's first threshold)
select_model_tiny(useLocal, ternaryAvailable, complexity) ==
    IF ternaryAvailable
    THEN IF FLt(complexity, Dec(5, 10)) THEN "bitnet-2b"
         ELSE IF FLt(complexity, Dec(8, 10)) THEN "mistral-7b-ternary"
         ELSE "claude-sonnet"
    ELSE IF ~useLocal \/ FLt(Dec(6, 10), complexity) THEN "claude-sonnet"
    ELSE IF FLt(complexity, Dec(5, 10)) THEN "tinyllama"
    ELSE "phi2"

\* (variant: the ternary policy with <= for its first threshold)
select_model_le(useLocal, ternaryAvailable, complexity) ==
    IF ternaryAvailable
    THEN IF FLe(complexity, Dec(5, 10)) THEN "bitnet-2b"
         ELSE IF FLt(complexity, Dec(8, 10)) THEN "mistral-7b-ternary"
         ELSE "claude-sonnet"
    ELSE IF ~useLocal \/ FLt(Dec(6, 10), complexity) THEN "claude-sonnet"
    ELSE IF FLt(complexity, Dec(3, 10)) THEN "tinyllama"
    ELSE "phi2"

\* (variant: the standard policy tests use_local instead of not use_local)
select_model_flag(useLocal, ternaryAvailable, complexity) ==
    IF ternaryAvailable
    THEN IF FLt(complexity, Dec(5, 10)) THEN "bitnet-2b"
         ELSE IF FLt(complexity, Dec(8, 10)) THEN "mistral-7b-ternary"
         ELSE "claude-sonnet"
    ELSE IF useLocal \/ FLt(Dec(6, 10), complexity) THEN "claude-sonnet"
    ELSE IF FLt(complexity, Dec(3, 10)) THEN "tinyllama"
    ELSE "phi2"

select_model(useLocal, ternaryAvailable, complexity) ==
    IF ternaryAvailable
    THEN IF FLt(complexity, Dec(5, 10)) THEN "bitnet-2b"
         ELSE IF FLt(complexity, Dec(8, 10)) THEN "mistral-7b-ternary"
         ELSE "claude-sonnet"
    ELSE IF ~useLocal \/ FLt(Dec(6, 10), complexity) THEN "claude-sonnet"
    ELSE IF FLt(complexity, Dec(3, 10)) THEN "tinyllama"
    ELSE "phi2"

\* ------------------------------------------------------------------- text
\* A prompt is a sequence of characters, each a one-character string.
Upper == <<"A", "B", "C", "D", "E", "F", "G", "H", "I", "J", "K", "L", "M",
           "N", "O", "P", "Q", "R", "S", "T", "U", "V", "W", "X", "Y", "Z">>
Lower == <<"a", "b", "c", "d", "e", "f", "g", "h", "i", "j", "k", "l", "m",
           "n", "o", "p", "q", "r", "s", "t", "u", "v", "w", "x", "y", "z">>
Digits == {"0", "1", "2", "3", "4", "5", "6", "7", "8", "9"}

\* str.lower(), character by character
LowerChar(c) ==
    IF \E i \in 1..Len(Upper) : Upper[i] = c
    THEN Lower[CHOOSE i \in 1..Len(Upper) : Upper[i] = c]
    ELSE c
ToLower(s) == [i \in 1..Len(s) |-> LowerChar(s[i])] \o <<>>

\* the regular expression class \w
IsWordChar(c) ==
    \/ \E i \in 1..Len(Upper) : Upper[i] = c \/ Lower[i] = c
    \/ c \in Digits
    \/ c = "_"

\* t occurs in s at offset i (0-based)
OccursAt(s, t, i) ==
    /\ i + Len(t) <= Len(s)
    /\ \A j \in 1..Len(t) : s[i + j] = t[j]

\* `t in s`
Contains(s, t) == \E i \in 0..(Len(s) - Len(t)) : OccursAt(s, t, i)

\* re.search(r'\bt\b', s) for a t made of word characters
SearchWord(s, t) ==
    \E i \in 0..(Len(s) - Len(t)) :
        /\ OccursAt(s, t, i)
        /\ (i = 0 \/ ~IsWordChar(s[i]))
        /\ (i + Len(t) = Len(s) \/ ~IsWordChar(s[i + Len(t) + 1]))

\* re.search(r'[...]', s) for a character class
SearchClass(s, class) == \E i \in 1..Len(s) : s[i] \in class

\* s.count(c)
CountChar(s, c) == Cardinality({i \in 1..Len(s) : s[i] = c})

COMPLEX_KEYWORDS ==
    <<<<"a", "n", "a", "l", "y", "z", "e">>,
      <<"d", "e", "s", "i", "g", "n">>,
      <<"a", "r", "c", "h", "i", "t", "e", "c", "t">>,
      <<"i", "m", "p", "l", "e", "m", "e", "n", "t">>,
      <<"r", "e", "f", "a", "c", "t", "o", "r">>,
      <<"o", "p", "t", "i", "m", "i", "z", "e">>,
      <<"d", "e", "b", "u", "g">>,
      <<"e", "x", "p", "l", "a", "i", "n", " ", "i", "n", " ", "d", "e", "t", "a", "i", "l">>,
      <<"c", "o", "m", "p", "r", "e", "h", "e", "n", "s", "i", "v", "e">>,
      <<"w", "r", "i", "t", "e", " ", "c", "o", "d", "e">>,
      <<"c", "r", "e", "a", "t", "e", " ", "f", "u", "n", "c", "t", "i", "o", "n">>,
      <<"b", "u", "i", "l", "d">>,
      <<"d", "e", "v", "e", "l", "o", "p">>>>

SIMPLE_KEYWORDS ==
    <<<<"s", "u", "m", "m", "a", "r", "i", "z", "e">>,
      <<"l", "i", "s", "t">>,
      <<"w", "h", "a", "t", " ", "i", "s">>,
      <<"d", "e", "f", "i", "n", "e">>,
      <<"y", "e", "s", " ", "o", "r", " ", "n", "o">>,
      <<"c", "l", "a", "s", "s", "i", "f", "y">>,
      <<"c", "a", "t", "e", "g", "o", "r", "i", "z", "e">>,
      <<"i", "s", " ", "t", "h", "i", "s">>,
      <<"t", "r", "u", "e", " ", "o", "r", " ", "f", "a", "l", "s", "e">>>>

\* CODE_PATTERNS: which of the seven patterns re.search finds in s
\* (the grave accent cannot be written in a TLA+ string: "GRAVE" stands for it)
Grave == "GRAVE"
CodeFence == <<Grave, Grave, Grave>>
CodeSyntax == {"{", "}", "[", "]", "(", ")", ";"}
CODE_PATTERNS(s) ==
    <<Contains(s, CodeFence),
      SearchWord(s, <<"d", "e", "f">>),
      SearchWord(s, <<"c", "l", "a", "s", "s">>),
      SearchWord(s, <<"f", "u", "n", "c", "t", "i", "o", "n">>),
      SearchWord(s, <<"i", "m", "p", "o", "r", "t">>),
      SearchWord(s, <<"f", "r", "o", "m">>),
      SearchClass(s, CodeSyntax)>>

\* sum(1 for x in xs if x) over a sequence of booleans
CountTrue(bs) == Cardinality({i \in 1..Len(bs) : bs[i]})

\* ------------------------------------------------------ estimate_complexity
\* Factor 1: length
\* (variant: the score of a long prompt mistyped as 0.05)
length_score_typo(length) ==
    IF length < 100 THEN Dec(1, 10)
    ELSE IF length < 500 THEN Dec(3, 10)
    ELSE Dec(5, 100)

length_score(length) ==
    IF length < 100 THEN Dec(1, 10)
    ELSE IF length < 500 THEN Dec(3, 10)
    ELSE Dec(5, 10)

\* Factor 2: keywords; complex keywords win over simple ones
\* (variant: a prompt without keywords gets no keyword score)
keyword_score_silent(complex_count, simple_count) ==
    IF complex_count > 0
    THEN FMin(Dec(3, 10), FMulInt(complex_count, Dec(1, 10)))
    ELSE IF simple_count > 0 THEN FNeg(Dec(1, 10))
    ELSE FZero

keyword_score(complex_count, simple_count) ==
    IF complex_count > 0
    THEN FMin(Dec(3, 10), FMulInt(complex_count, Dec(1, 10)))
    ELSE IF simple_count > 0 THEN FNeg(Dec(1, 10))
    ELSE Dec(1, 10)

\* Factor 3: code presence, two or more patterns
code_score(code_matches) ==
    IF code_matches >= 2 THEN Dec(3, 10) ELSE FZero

\* Factor 4: question form, else creative task
question_score(questions, creative) ==
    IF questions > 0 /\ questions <= 2 THEN FNeg(Dec(1, 10))
    ELSE IF creative THEN Dec(2, 10)
    ELSE FZero

\* The running score before it is clamped, with the reasoning factors
score_factors(prompt) ==
    LET length == Len(prompt)
        length_factor ==
            IF length < 100 THEN "short prompt"
            ELSE IF length < 500 THEN "medium length"
            ELSE "long prompt"
        prompt_lower == ToLower(prompt)
        complex_count ==
            CountTrue([k \in 1..Len(COMPLEX_KEYWORDS) |->
                         Contains(prompt_lower, COMPLEX_KEYWORDS[k])])
        simple_count ==
            CountTrue([k \in 1..Len(SIMPLE_KEYWORDS) |->
                         Contains(prompt_lower, SIMPLE_KEYWORDS[k])])
        keyword_factor ==
            IF complex_count > 0 THEN "complex keywords"
            ELSE IF simple_count > 0 THEN "simple task keywords"
            ELSE "neutral keywords"
        code_matches == CountTrue(CODE_PATTERNS(prompt))
        code_factor == IF code_matches >= 2 THEN <<"contains code">> ELSE <<>>
        questions == CountChar(prompt, "?")
        creative == \/ Contains(prompt_lower, <<"c", "r", "e", "a", "t", "e">>)
                    \/ Contains(prompt_lower, <<"b", "u", "i", "l", "d">>)
        question_factor ==
            IF questions > 0 /\ questions <= 2 THEN <<"simple question">>
            ELSE IF creative THEN <<"creative task">>
            ELSE <<>>
    IN  [score   |-> FAdd(FAdd(FAdd(FAdd(FZero, length_score(length)),
                                    keyword_score(complex_count, simple_count)),
                               code_score(code_matches)),
                          question_score(questions, creative)),
         complex_count |-> complex_count,
         factors |-> <<length_factor, keyword_factor>> \o code_factor \o question_factor]

\* score = max(0.0, min(1.0, score))
\* (variant: only the upper end is clamped)
clamp_score_upper(f) ==
    [f EXCEPT !.score = FMin(Dec(10, 10), f.score)]

clamp_score(f) ==
    [f EXCEPT !.score = FMax(FZero, FMin(Dec(10, 10), f.score))]

\* Returns [score, factors, complex_count]; the reasoning string is the score
\* followed by the factors joined by ", ", the keyword factor with its count.
estimate_complexity(prompt) == clamp_score(score_factors(prompt))

\* ------------------------------------------------------------ estimate_cost
\* Costs are exact rationals counted in units of a quarter of a millionth of a
\* dollar: len(prompt)/4 tokens at cost_per_token dollars per million tokens
\* is len(prompt) * cost_per_token units.
DefaultResponseLength == 500

\* (variant: every backend that is not local is charged the metered rate)
estimate_cost_metered(prompt, model, response_length) ==
    IF model \notin ModelNames \/ MODELS[model].backend = "local"
    THEN 0
    ELSE (Len(prompt) + 4 * response_length) * MODELS["claude-sonnet"].cost_per_token

\* (variant: the prompt tokens are rounded up to whole tokens)
estimate_cost_ceil(prompt, model, response_length) ==
    IF model \notin ModelNames \/ MODELS[model].backend = "local"
    THEN 0
    ELSE (4 * ((Len(prompt) + 3) \div 4) + 4 * response_length)
           * MODELS[model].cost_per_token

\* (variant: len(prompt) // 4, whole tokens rounded down)
estimate_cost_floor(prompt, model, response_length) ==
    IF model \notin ModelNames \/ MODELS[model].backend = "local"
    THEN 0
    ELSE (4 * (Len(prompt) \div 4) + 4 * response_length)
           * MODELS[model].cost_per_token

estimate_cost(prompt, model, response_length) ==
    IF model \notin ModelNames \/ MODELS[model].backend = "local"
    THEN 0
    ELSE (Len(prompt) + 4 * response_length) * MODELS[model].cost_per_token

\* ------------------------------------------------------------------ prompts
Pad(c, n) == [i \in 1..n |-> c]

PromptText ==
    [simple   |-> <<"W", "h", "a", "t", " ", "i", "s", " ", "P", "y", "t", "h", "o", "n", "?">>,
     empty    |-> <<>>,
     creative |-> <<"b", "u", "i", "l", "d", " ", "i", "t">>,
     code     |-> <<"d", "e", "b", "u", "g", " ", "d", "e", "f", " ", "f", "(", "x", ")">>,
     edge     |-> <<"o", "p", "t", "i", "m", "i", "z", "e", " ", "a", "n", "d", " ", "d", "e", "b",
                 "u", "g", " ", "d", "e", "f", " ", "f", "(", "x", ")">>,
     hard     |-> <<"b", "u", "i", "l", "d", ",", " ", "d", "e", "s", "i", "g", "n", " ", "a", "n",
                 "d", " ", "d", "e", "b", "u", "g", " ", "d", "e", "f", " ", "f", "(", "x", ")">>,
     long     |-> Pad("x", 500)]

Prompts == DOMAIN PromptText

\* estimate_complexity and estimate_cost on each prompt, evaluated once
Assessment == [p \in Prompts |-> estimate_complexity(PromptText[p])]
CostEstimate ==
    [p \in Prompts |->
       [m \in ModelNames |-> estimate_cost(PromptText[p], m, DefaultResponseLength)]]

\* -------------------------------------------------------------------- state
\* An optional value (Python's None or a value)
None == <<>>
Some(x) == <<x>>
Get(o) == o[1]

\* The threads that serve requests on the one router of the process.
Workers == {"w1", "w2"}
MainWorker == "w1"

VARIABLES
    use_local,          \* SmartRouter.use_local
    complexity_threshold, \* SmartRouter.complexity_threshold
    use_ternary,        \* SmartRouter.use_ternary
    ternary_available,  \* SmartRouter.ternary_available
    anthropic_client,   \* TRUE iff SmartRouter.anthropic_client is not None
    req,                \* per worker: the request it is serving
    tasks,              \* the Taskwarrior project vps_ai.router, oldest first
    sel,                \* the last direct call of select_model and its value
    probe               \* the last direct call of an estimate, and its value

vars == <<use_local, complexity_threshold, use_ternary, ternary_available,
          anthropic_client, req, tasks, sel, probe>>
router == <<use_local, complexity_threshold, use_ternary, ternary_available,
            anthropic_client>>

\* self, as the methods of SmartRouter see it
Self ==
    [use_local            |-> use_local,
     complexity_threshold |-> complexity_threshold,
     use_ternary          |-> use_ternary,
     ternary_available    |-> ternary_available,
     anthropic_client     |-> anthropic_client]

\* self.select_model(complexity): the attributes the method reads
\* (variant: the standard policy sends scores above complexity_threshold to
\* the cloud)
SmartRouter_select_model_threshold(self, complexity) ==
    IF self.ternary_available
    THEN select_model(self.use_local, self.ternary_available, complexity)
    ELSE IF ~self.use_local \/ FLt(self.complexity_threshold, complexity)
         THEN "claude-sonnet"
         ELSE IF FLt(complexity, Dec(3, 10)) THEN "tinyllama" ELSE "phi2"

\* (variant: without a cloud client the cloud model is never selected)
SmartRouter_select_model_credentials(self, complexity) ==
    LET model == select_model(self.use_local, self.ternary_available, complexity)
    IN  IF model = "claude-sonnet" /\ ~self.anthropic_client
        THEN (IF self.ternary_available THEN "mistral-7b-ternary" ELSE "phi2")
        ELSE model

SmartRouter_select_model(self, complexity) ==
    select_model(self.use_local, self.ternary_available, complexity)

\* A worker that serves no request.
\*   pc       where the worker is in chat / process_request
\*   via      "process_request", or "override" for the gateway's direct path
\*   prompt   the prompt (a key of PromptText)
\*   model    the model argument of the execute_* call
\*   assessed the value of estimate_complexity, once computed
\*   decision the RoutingDecision, once built
\*   result   the result dict, once an execute_* call has returned it
\*   error    the exception that left the call, if one did
\*   calls    the outbound backend calls made, in order, each with what the
\*            backend did
\*   trace    the steps taken, in order
IdleRequest ==
    [pc |-> "idle", via |-> "none", prompt |-> "empty", model |-> "none",
     assessed |-> None, decision |-> None, result |-> None, error |-> "none",
     calls |-> <<>>, trace |-> <<>>]

\* The router of the gateway after __init__: use_local is fixed by the
\* environment, complexity_threshold and use_ternary are at their defaults,
\* ternary_available by the health probe and the client by the API key; no
\* request is being served and nothing has been recorded.
Init ==
    /\ use_local \in BOOLEAN
    /\ complexity_threshold = Dec(5, 10)
    /\ use_ternary = TRUE
    /\ ternary_available \in BOOLEAN
    /\ anthropic_client \in BOOLEAN
    /\ req = [w \in Workers |-> IdleRequest]
    /\ tasks = <<>>
    /\ sel = None
    /\ probe = None

\* What a POST to a local or ternary endpoint can do: requests raises
\* ConnectionError or Timeout, raise_for_status raises HTTPError, json() raises.
PostOutcomes == {"ok", "network_error", "timeout", "http_error", "bad_json"}
\* What messages.create can do: return a message, raise, or return a message
\* without content (content[0] raises IndexError).
CloudOutcomes == {"ok", "api_error", "empty_content"}
\* What os.system('task add ...') can do: add the task, or fail (no task
\* binary, non-zero exit); "exception" is the except branch.
RecorderOutcomes == {"written", "unavailable", "exception"}
\* The token counts message.usage can report.
MaxTokens == 1

Step(w, r) == req' = [req EXCEPT ![w] = r]

\* ------------------------------------------------------------ route_request
\* process_request is entered with a prompt.
ProcessRequest(w, p) ==
    /\ req[w].pc = "idle"
    /\ Len(tasks) < MaxTasks
    /\ Step(w, [IdleRequest EXCEPT !.pc = "estimate", !.via = "process_request",
                                   !.prompt = p])
    /\ UNCHANGED <<router, tasks, sel, probe>>

\* complexity, reasoning = self.estimate_complexity(prompt)
RouteEstimate(w) ==
    /\ req[w].pc = "estimate"
    /\ Step(w, [req[w] EXCEPT
                  !.pc = "select",
                  !.assessed = Some(Assessment[req[w].prompt]),
                  !.trace = Append(@, "estimate")])
    /\ UNCHANGED <<router, tasks, sel, probe>>

\* model = self.select_model(complexity)
\* (variant: the score is kept in a field of the router that every call
\* writes and select_model reads)
RouteSelect_shared(w) ==
    /\ req[w].pc = "select"
    /\ LET others == {v \in Workers \ {w} : req[v].assessed # None}
           score  == IF others = {} THEN Get(req[w].assessed).score
                     ELSE Get(req[CHOOSE v \in others : TRUE].assessed).score
       IN  Step(w, [req[w] EXCEPT
                      !.pc = "cost",
                      !.model = SmartRouter_select_model(Self, score),
                      !.trace = Append(@, "select")])
    /\ UNCHANGED <<router, tasks, sel, probe>>

RouteSelect(w) ==
    /\ req[w].pc = "select"
    /\ Step(w, [req[w] EXCEPT
                  !.pc = "cost",
                  !.model = SmartRouter_select_model(Self,
                                         Get(req[w].assessed).score),
                  !.trace = Append(@, "select")])
    /\ UNCHANGED <<router, tasks, sel, probe>>

\* cost = self.estimate_cost(prompt, model); decision = RoutingDecision(...)
RouteCost(w) ==
    /\ req[w].pc = "cost"
    /\ Step(w, [req[w] EXCEPT
                  !.pc = "execute",
                  !.decision = Some(
                      [model          |-> req[w].model,
                       complexity     |-> Get(req[w].assessed).score,
                       estimated_cost |-> CostEstimate[req[w].prompt][req[w].model],
                       reasoning      |-> Get(req[w].assessed),
                       backend        |-> MODELS[req[w].model].backend]),
                  !.trace = Append(@, "cost")])
    /\ UNCHANGED <<router, tasks, sel, probe>>

\* ---------------------------------------------------------------- execute_*
\* The strategy the caller dispatches to: process_request by decision.backend,
\* the gateway's override by the model named.
\* (variant: process_request without its ternary branch)
Dispatch_noternary(r) ==
    IF r.via = "process_request"
    THEN (IF Get(r.decision).backend = "local" THEN "local" ELSE "cloud")
    ELSE (IF r.model \in {"tinyllama", "phi2"} THEN "local" ELSE "cloud")

Dispatch(r) ==
    IF r.via = "process_request"
    THEN (IF Get(r.decision).backend = "ternary" THEN "ternary"
          ELSE IF Get(r.decision).backend = "local" THEN "local"
          ELSE "cloud")
    ELSE (IF r.model \in {"tinyllama", "phi2"} THEN "local" ELSE "cloud")

\* The dict execute_ternary_request returns
TernaryResult(model) ==
    [model |-> model, backend |-> "ternary", cost |-> 0,
     input_tokens |-> 0, output_tokens |-> 0, routing |-> None]

\* The dict execute_ollama_request returns
OllamaResult(model) ==
    [model |-> model, backend |-> "local", cost |-> 0,
     input_tokens |-> 0, output_tokens |-> 0, routing |-> None]

\* The dict execute_claude_request returns; cost in quarter-millionths of a
\* dollar, as for estimate_cost.
ClaudeResult(input_tokens, output_tokens) ==
    [model |-> "claude-sonnet", backend |-> "cloud",
     cost |-> 4 * (input_tokens + output_tokens) * MODELS["claude-sonnet"].cost_per_token,
     input_tokens |-> input_tokens, output_tokens |-> output_tokens,
     routing |-> None]

\* One outbound call
Call(to, outcome) == [to |-> to, outcome |-> outcome]
\* The backends a request has called, in order
CallsTo(r) == [i \in 1..Len(r.calls) |-> r.calls[i].to]
\* The number of calls a request has made to one backend
CallCount(r, to) == Cardinality({i \in 1..Len(r.calls) : r.calls[i].to = to})
\* Whether a call of the request to that backend has failed
CallFailed(r, to) ==
    \E i \in 1..Len(r.calls) : r.calls[i].to = to /\ r.calls[i].outcome # "ok"

\* What execute_ternary_request does when its try block raised.
\* (variant: answers with an empty ternary result)
TernaryFailure_swallow(r) ==
    [r EXCEPT !.pc = "attach", !.result = Some(TernaryResult(r.model))]

\* (variant: re-raises, as the local strategy does)
TernaryFailure_reraise(r) ==
    [r EXCEPT !.pc = "raised", !.error = r.calls[Len(r.calls)].outcome]

\* (variant: tries the ternary endpoint again)
TernaryFailure_retry(r) ==
    [r EXCEPT !.pc = "execute"]

\* except: log, then return self.execute_claude_request(prompt)
TernaryFailure(r) ==
    [r EXCEPT !.pc = "fallback"]

\* (variant: a failed call marks the ternary server as unavailable)
ExecuteTernaryRequest_disable(w, outcome) ==
    /\ req[w].pc = "execute"
    /\ Dispatch(req[w]) = "ternary"
    /\ LET called == [req[w] EXCEPT !.calls = Append(@, Call("ternary", outcome)),
                                    !.trace = Append(@, "execute_ternary")]
       IN  IF outcome = "ok"
           THEN /\ Step(w, [called EXCEPT !.pc = "attach",
                                          !.result = Some(TernaryResult(req[w].model))])
                /\ UNCHANGED ternary_available
           ELSE /\ Step(w, TernaryFailure(called))
                /\ ternary_available' = FALSE
    /\ UNCHANGED <<use_local, complexity_threshold, use_ternary, anthropic_client,
                   tasks, sel, probe>>

\* execute_ternary_request up to its return or its except branch
ExecuteTernaryRequest(w, outcome) ==
    /\ req[w].pc = "execute"
    /\ Dispatch(req[w]) = "ternary"
    /\ LET called == [req[w] EXCEPT !.calls = Append(@, Call("ternary", outcome)),
                                    !.trace = Append(@, "execute_ternary")]
       IN  IF outcome = "ok"
           THEN Step(w, [called EXCEPT !.pc = "attach",
                                       !.result = Some(TernaryResult(req[w].model))])
           ELSE Step(w, TernaryFailure(called))
    /\ UNCHANGED <<router, tasks, sel, probe>>

\* What execute_ollama_request does when its try block raised.
\* (variant: falls back to the cloud as the ternary strategy does)
OllamaFailure_fallback(r) ==
    [r EXCEPT !.pc = "fallback"]

\* except: log and re-raise; the error is the one the POST ended with.
OllamaFailure(r) ==
    [r EXCEPT !.pc = "raised", !.error = r.calls[Len(r.calls)].outcome]

ExecuteOllamaRequest(w, outcome) ==
    /\ req[w].pc = "execute"
    /\ Dispatch(req[w]) = "local"
    /\ LET called == [req[w] EXCEPT !.calls = Append(@, Call("ollama", outcome)),
                                    !.trace = Append(@, "execute_ollama")]
       IN  IF outcome = "ok"
           THEN Step(w, [called EXCEPT !.pc = "attach",
                                       !.result = Some(OllamaResult(req[w].model))])
           ELSE Step(w, OllamaFailure(called))
    /\ UNCHANGED <<router, tasks, sel, probe>>

\* The ValueError execute_claude_request raises without a client
NotConfigured == "Anthropic API key not configured"

\* execute_claude_request without a client: raise ValueError before the try.
\* (variant: no check, so the None client fails inside the try block)
ClaudeNotConfigured_nocheck(r) ==
    [r EXCEPT !.pc = "raised", !.error = "AttributeError",
              !.trace = Append(@, "execute_claude")]

ClaudeNotConfigured(r) ==
    [r EXCEPT !.pc = "raised", !.error = NotConfigured,
              !.trace = Append(@, "execute_claude")]

\* execute_claude_request, called by the dispatch or from the ternary except
\* branch
ExecuteClaudeRequest(w) ==
    /\ \/ req[w].pc = "execute" /\ Dispatch(req[w]) = "cloud"
       \/ req[w].pc = "fallback"
    /\ IF ~anthropic_client
       THEN Step(w, ClaudeNotConfigured(req[w]))
       ELSE \E outcome \in CloudOutcomes :
              LET called == [req[w] EXCEPT !.calls = Append(@, Call("claude", outcome)),
                                           !.trace = Append(@, "execute_claude")]
              IN  IF outcome = "ok"
                  THEN \E i \in 0..MaxTokens, o \in 0..MaxTokens :
                         Step(w, [called EXCEPT !.pc = "attach",
                                                !.result = Some(ClaudeResult(i, o))])
                  ELSE Step(w, [called EXCEPT !.pc = "raised", !.error = outcome])
    /\ UNCHANGED <<router, tasks, sel, probe>>

\* ---------------------------------------------------------- process_request
\* result['routing'] = {...}
AttachRouting(w) ==
    /\ req[w].pc = "attach"
    /\ req[w].via = "process_request"
    /\ LET d == Get(req[w].decision)
           routing == [complexity |-> d.complexity, reasoning |-> d.reasoning,
                       estimated_cost |-> d.estimated_cost]
       IN  Step(w, [req[w] EXCEPT
                      !.pc = "log",
                      !.result = Some([Get(@) EXCEPT !.routing = Some(routing)]),
                      !.trace = Append(@, "attach")])
    /\ UNCHANGED <<router, tasks, sel, probe>>

\* ------------------------------------------------------- gateway: chat()
\* The values of "model" a caller of /api/v1/chat may send besides "auto".
Overrides == {"tinyllama", "phi2", "claude-sonnet", "bitnet-2b", "gpt-4"}

\* (variant: the named model is ignored and the request is routed)
ChatOverride_routed(w, p, m) ==
    /\ req[w].pc = "idle"
    /\ IF m \in {"tinyllama", "phi2", "claude-sonnet"}
       THEN Step(w, [IdleRequest EXCEPT !.pc = "estimate", !.via = "override",
                                        !.prompt = p, !.model = m])
       ELSE Step(w, [IdleRequest EXCEPT !.pc = "rejected", !.via = "override",
                                        !.prompt = p, !.model = m])
    /\ UNCHANGED <<router, tasks, sel, probe>>

\* (variant: every name that is not a local model goes to the cloud strategy)
ChatOverride_lenient(w, p, m) ==
    /\ req[w].pc = "idle"
    /\ Step(w, [IdleRequest EXCEPT !.pc = "execute", !.via = "override",
                                   !.prompt = p, !.model = m])
    /\ UNCHANGED <<router, tasks, sel, probe>>

\* chat() with model_override != 'auto': the named strategy is called
\* directly, an unknown name is answered 400.
ChatOverride(w, p, m) ==
    /\ req[w].pc = "idle"
    /\ IF m \in {"tinyllama", "phi2", "claude-sonnet"}
       THEN Step(w, [IdleRequest EXCEPT !.pc = "execute", !.via = "override",
                                        !.prompt = p, !.model = m])
       ELSE Step(w, [IdleRequest EXCEPT !.pc = "rejected", !.via = "override",
                                        !.prompt = p, !.model = m])
    /\ UNCHANGED <<router, tasks, sel, probe>>

\* chat(): result['routing'] = {'complexity': 0, 'reasoning': 'Manual model
\* selection: ...', 'estimated_cost': result.get('cost', 0)}
AttachManual(w) ==
    /\ req[w].pc = "attach"
    /\ req[w].via = "override"
    /\ LET routing == [complexity |-> FZero,
                       reasoning |-> [score |-> FZero, complex_count |-> 0,
                                      factors |-> <<"Manual model selection",
                                                    req[w].model>>],
                       estimated_cost |-> Get(req[w].result).cost]
       IN  Step(w, [req[w] EXCEPT
                      !.pc = "return",
                      !.result = Some([Get(@) EXCEPT !.routing = Some(routing)]),
                      !.trace = Append(@, "attach")])
    /\ UNCHANGED <<router, tasks, sel, probe>>

\* The task log_to_taskwarrior adds
TaskEntry(decision, result) ==
    [model |-> decision.model, complexity |-> decision.complexity,
     cost |-> result.cost]

\* log_to_taskwarrior: never raises
\* (variant: without the try, a failing recorder ends the request)
LogToTaskwarrior_raises(w, outcome) ==
    /\ req[w].pc = "log"
    /\ tasks' = IF outcome = "written"
                THEN Append(tasks, TaskEntry(Get(req[w].decision), Get(req[w].result)))
                ELSE tasks
    /\ IF outcome = "written"
       THEN Step(w, [req[w] EXCEPT !.pc = "return", !.trace = Append(@, "record")])
       ELSE Step(w, [req[w] EXCEPT !.pc = "raised", !.error = "OSError",
                                   !.result = None,
                                   !.trace = Append(@, "record")])
    /\ UNCHANGED <<router, sel, probe>>

LogToTaskwarrior(w, outcome) ==
    /\ req[w].pc = "log"
    /\ tasks' = IF outcome = "written"
                THEN Append(tasks, TaskEntry(Get(req[w].decision), Get(req[w].result)))
                ELSE tasks
    /\ Step(w, [req[w] EXCEPT !.pc = "return", !.trace = Append(@, "record")])
    /\ UNCHANGED <<router, sel, probe>>

\* ---------------------------------------------------------------- get_stats
\* The characters of each model name
ModelChars ==
    [m \in ModelNames |->
       IF m = "tinyllama" THEN <<"t", "i", "n", "y", "l", "l", "a", "m", "a">>
       ELSE IF m = "phi2" THEN <<"p", "h", "i", "2">>
       ELSE IF m = "bitnet-2b" THEN <<"b", "i", "t", "n", "e", "t", "-", "2", "b">>
       ELSE IF m = "mistral-7b-ternary" THEN
            <<"m", "i", "s", "t", "r", "a", "l", "-", "7", "b", "-", "t", "e", "r", "n", "a", "r", "y">>
       ELSE <<"c", "l", "a", "u", "d", "e", "-", "s", "o", "n", "n", "e", "t">>]

\* str(t) of an exported task, as far as it has letters: the description
\* log_to_taskwarrior wrote (the model named twice, the numbers left out), the
\* project, the tag and the status.
TaskText(t) ==
    <<"d", "e", "s", "c", "r", "i", "p", "t", "i", "o", "n", ":", " ", "A", "I", " ", "R", "e", "q", "u", "e", "s", "t", ":", " ">> \o ModelChars[t.model]
      \o <<" ", "M", "o", "d", "e", "l", ":", " ">> \o ModelChars[t.model]
      \o <<",", " ", "C", "o", "m", "p", "l", "e", "x", "i", "t", "y", ":", " ", ",", " ", "C", "o", "s", "t", ":", " ", ",", " ", "p", "r", "o", "j", "e", "c", "t", ":", " ", "v", "p", "s", "_", "a", "i", ".", "r", "o", "u", "t", "e", "r", ",", " ", "t", "a", "g", "s", ":", " ", "r", "o", "u", "t", "i", "n", "g", ",", " ", "s", "t", "a", "t", "u", "s", ":", " ", "p", "e", "n", "d", "i", "n", "g">>

\* What subprocess.run(['task', 'project:vps_ai.router', 'export']) can do:
\* raise (no task binary), exit non-zero, print nothing, print what is no
\* JSON, print a JSON number or null (len(tasks) raises TypeError), or print
\* the tasks of the project.
StatsOutcomes ==
    {"absent", "error_exit", "no_output", "unparseable", "not_a_list", "exported"}

ZeroStats ==
    [total_requests |-> 0, local_requests |-> 0, cloud_requests |-> 0,
     local_percentage |-> <<0, 1>>]

\* The counts get_stats takes from the exported tasks; local_percentage is the
\* exact quotient <<numerator, denominator>>.
CountStats(store) ==
    LET total_requests == Len(store)
        local_requests ==
            Cardinality({i \in 1..Len(store) :
                \/ Contains(TaskText(store[i]), ModelChars["tinyllama"])
                \/ Contains(TaskText(store[i]), ModelChars["phi2"])})
        cloud_requests ==
            Cardinality({i \in 1..Len(store) :
                Contains(TaskText(store[i]), <<"c", "l", "a", "u", "d", "e">>)})
    IN  [total_requests   |-> total_requests,
         local_requests   |-> local_requests,
         cloud_requests   |-> cloud_requests,
         local_percentage |-> IF total_requests > 0
                              THEN <<local_requests * 100, total_requests>>
                              ELSE <<0, 1>>]

\* get_stats: the exception it ends with ("none": it returns) and its value
\* (variant: without the try)
get_stats_notry(outcome, store) ==
    IF outcome = "exported" THEN [raised |-> "none", stats |-> CountStats(store)]
    ELSE IF outcome \in {"error_exit", "no_output"}
    THEN [raised |-> "none", stats |-> ZeroStats]
    ELSE [raised |-> outcome, stats |-> ZeroStats]

\* (variant: every request that is not a cloud request is a local one)
get_stats_rest(outcome, store) ==
    IF outcome = "exported"
    THEN [raised |-> "none",
          stats  |-> [CountStats(store) EXCEPT
                        !.local_requests = Len(store) - CountStats(store).cloud_requests]]
    ELSE [raised |-> "none", stats |-> ZeroStats]

get_stats(outcome, store) ==
    IF outcome = "exported" THEN [raised |-> "none", stats |-> CountStats(store)]
    ELSE [raised |-> "none", stats |-> ZeroStats]

\* GET /api/v1/stats, served by a worker between two chat requests
GetStats(w, outcome) ==
    /\ req[w].pc = "idle"
    /\ LET got == get_stats(outcome, tasks)
           r   == [IdleRequest EXCEPT !.via = "stats",
                                      !.calls = <<Call("task", outcome)>>]
       IN  IF got.raised = "none"
           THEN Step(w, [r EXCEPT !.pc = "done", !.result = Some(got.stats)])
           ELSE Step(w, [r EXCEPT !.pc = "raised", !.error = got.raised])
    /\ UNCHANGED <<router, tasks, sel, probe>>

\* return result
Return(w) ==
    /\ req[w].pc = "return"
    /\ Step(w, [req[w] EXCEPT !.pc = "done"])
    /\ UNCHANGED <<router, tasks, sel, probe>>

\* The worker takes up the next request.
NextRequest(w) ==
    /\ req[w].pc \in {"done", "raised", "rejected"}
    /\ Step(w, IdleRequest)
    /\ UNCHANGED <<router, tasks, sel, probe>>

\* ----------------------------------------------------------------- the spec
Serve(w) ==
    \/ \E p \in Prompts : ProcessRequest(w, p)
    \/ RouteEstimate(w)
    \/ RouteSelect(w)
    \/ RouteCost(w)
    \/ \E outcome \in PostOutcomes : ExecuteTernaryRequest(w, outcome)
    \/ \E outcome \in PostOutcomes : ExecuteOllamaRequest(w, outcome)
    \/ ExecuteClaudeRequest(w)
    \/ AttachRouting(w)
    \/ \E p \in Prompts, m \in Overrides : ChatOverride(w, p, m)
    \/ AttachManual(w)
    \/ \E outcome \in RecorderOutcomes : LogToTaskwarrior(w, outcome)
    \/ \E outcome \in StatsOutcomes : GetStats(w, outcome)
    \/ Return(w)
    \/ NextRequest(w)

Next == Serve(MainWorker)

\* ------------------------------------------- concurrent process_request calls
\* The prompts of the concurrent requests: one the policies serve without the
\* cloud, one just above the standard policy's cut, one the ternary policy
\* sends to the cloud.
ConcPrompts == {"simple", "edge", "hard"}

\* What the POST of a concurrent request does: it answers, or it fails (the
\* except branches do not tell the failures apart).
ConcOutcomes == {"ok", "timeout"}

\* One step of the process_request call a thread of the gateway is in
Handle(w) ==
    \/ \E p \in ConcPrompts : ProcessRequest(w, p)
    \/ RouteEstimate(w)
    \/ RouteSelect(w)
    \/ RouteCost(w)
    \/ \E outcome \in ConcOutcomes : ExecuteTernaryRequest(w, outcome)
    \/ \E outcome \in ConcOutcomes : ExecuteOllamaRequest(w, outcome)
    \/ ExecuteClaudeRequest(w)
    \/ AttachRouting(w)
    \/ \E outcome \in RecorderOutcomes : LogToTaskwarrior(w, outcome)
    \/ Return(w)
    \/ NextRequest(w)

\* The threads interleave at every step.
ConcNext == \E w \in Workers : Handle(w)

ConcSpec == Init /\ [][ConcNext]_vars

\* -------------------------------------------------- select_model on its own
\* The doubles next to a positive double x of at least 2^-3.
UlpAt(h) == 2^(LimbBits + BitLen(h) - Mantissa)
NextUp(x) ==
    LET u == UlpAt(x.h)
    IN  MkF(FALSE, IF x.l + u >= LimbBase THEN <<x.h + 1, x.l + u - LimbBase>>
                                         ELSE <<x.h, x.l + u>>)
NextDown(x) ==
    LET p == IF x.l = 0 THEN <<x.h - 1, LimbBase - 1>> ELSE <<x.h, x.l - 1>>
        u == UlpAt(p[1])
    IN  MkF(FALSE, <<p[1], p[2] - (p[2] % u)>>)

\* The scores select_model is tried on: the doubles nearest k/ScoreDen, the
\* thresholds of the two policies and the doubles next to each threshold.
Thresholds == {Dec(3, 10), Dec(5, 10), Dec(6, 10), Dec(8, 10)}
Scores ==
    {Dec(k, ScoreDen) : k \in 0..ScoreDen}
      \cup Thresholds
      \cup {NextUp(t) : t \in Thresholds}
      \cup {NextDown(t) : t \in Thresholds \cup {Dec(10, 10)}}

\* router.select_model(score), called on its own (the tests and the
\* /api/v1/complexity endpoint do)
CallSelectModel(score) ==
    /\ sel' = Some([score |-> score,
                    model |-> SmartRouter_select_model(Self, score)])
    /\ UNCHANGED <<router, req, tasks, probe>>

SelNext == \E score \in Scores : CallSelectModel(score)

SelSpec == Init /\ [][SelNext]_vars

Spec == Init /\ [][Next]_vars

\* ----------------------------------------------------------------- __init__
\* What GET /health can do: requests raises (no connection, timeout), or a
\* response arrives with a status and a body.  The body is JSON with "ternary"
\* true, false, null or missing, JSON that is no object, or no JSON at all.
HealthBodies == {"true", "false", "null", "missing", "not_an_object", "unparseable"}
HealthResponses ==
    {[raised |-> e, status |-> 0, body |-> "none"] : e \in {"ConnectionError", "Timeout"}}
      \cup [raised : {"none"}, status : {200, 404, 503}, body : HealthBodies]

\* The exception the body of _check_ternary_available ends with ("none": it
\* returns), and the truth of the value it returns
\* (variant: without the try)
check_ternary_available_notry(health) ==
    IF health.raised # "none" THEN [raised |-> health.raised, value |-> FALSE]
    ELSE IF health.status = 200
    THEN IF health.body = "unparseable"
         THEN [raised |-> "JSONDecodeError", value |-> FALSE]
         ELSE IF health.body = "not_an_object"
         THEN [raised |-> "AttributeError", value |-> FALSE]
         ELSE [raised |-> "none", value |-> health.body = "true"]
    ELSE [raised |-> "none", value |-> FALSE]

\* _check_ternary_available: data.get('ternary', False) of a 200 response,
\* False for any other status and for whatever is raised on the way
check_ternary_available(health) ==
    IF health.raised # "none" THEN [raised |-> "none", value |-> FALSE]
    ELSE IF health.status = 200
    THEN IF health.body \in {"unparseable", "not_an_object"}
         THEN [raised |-> "none", value |-> FALSE]
         ELSE [raised |-> "none", value |-> health.body = "true"]
    ELSE [raised |-> "none", value |-> FALSE]

\* The values complexity_threshold is constructed with, 0.5 the default
ThresholdArgs == {Dec(1, 10), Dec(5, 10), Dec(9, 10)}
\* os.getenv('ANTHROPIC_API_KEY'): None, '' or a key
ApiKeys == {"unset", "empty", "set"}

\* SmartRouter(use_local, complexity_threshold, use_ternary), in an environment
\* where /health answers with `health` and the API key is `api_key`: a new
\* router takes the place of the one constructed before, when nothing has
\* been called yet.  An exception leaving __init__ leaves no new router.
Construct(useLocal, threshold, useTernary, health, api_key) ==
    LET checked == IF useTernary THEN check_ternary_available(health)
                   ELSE [raised |-> "none", value |-> FALSE]
        call    == [call |-> "construct",
                    health |-> IF useTernary THEN Some(health) ELSE None,
                    api_key |-> api_key,
                    raised |-> checked.raised]
    IN  /\ probe = None
        /\ sel = None
        /\ \A w \in Workers : req[w].pc = "idle"
        /\ tasks = <<>>
        /\ probe' = Some(call)
        /\ IF checked.raised = "none"
           THEN /\ use_local' = useLocal
                /\ complexity_threshold' = threshold
                /\ use_ternary' = useTernary
                /\ ternary_available' = checked.value
                /\ anthropic_client' = (api_key = "set")
           ELSE UNCHANGED router
        /\ UNCHANGED <<req, tasks, sel>>

\* A router is constructed, then select_model or route_request is called on
\* it once.
CtorNext ==
    \/ \E useLocal \in BOOLEAN, threshold \in ThresholdArgs, useTernary \in BOOLEAN,
          health \in HealthResponses, api_key \in ApiKeys :
            Construct(useLocal, threshold, useTernary, health, api_key)
    \/ /\ sel = None
       /\ req[MainWorker].pc = "idle"
       /\ \E score \in Scores : CallSelectModel(score)
    \/ /\ sel = None
       /\ \/ \E p \in Prompts : ProcessRequest(MainWorker, p)
          \/ RouteEstimate(MainWorker)
          \/ RouteSelect(MainWorker)
          \/ RouteCost(MainWorker)

CtorSpec == Init /\ [][CtorNext]_vars

\* ------------------------------------------------- the estimates on their own
\* The prompts of tests/test_router.py, and the explanation request in its
\* second wording
TestPrompts ==
    [variable |-> <<"W", "h", "a", "t", " ", "i", "s", " ", "a", " ", "v", "a", "r", "i", "a", "b", "l",
                    "e", "?">>,
     lists_in |-> <<"E", "x", "p", "l", "a", "i", "n", " ", "t", "h", "e", " ", "d", "i", "f", "f", "e",
                    "r", "e", "n", "c", "e", " ", "b", "e", "t", "w", "e", "e", "n", " ", "l", "i", "s",
                    "t", "s", " ", "a", "n", "d", " ", "t", "u", "p", "l", "e", "s", " ", "i", "n", " ",
                    "P", "y", "t", "h", "o", "n", ".">>,
     lists_of |-> <<"E", "x", "p", "l", "a", "i", "n", " ", "t", "h", "e", " ", "d", "i", "f", "f", "e",
                    "r", "e", "n", "c", "e", " ", "b", "e", "t", "w", "e", "e", "n", " ", "P", "y", "t",
                    "h", "o", "n", " ", "l", "i", "s", "t", "s", " ", "a", "n", "d", " ", "t", "u", "p",
                    "l", "e", "s", ".">>,
     tree     |-> <<"W", "r", "i", "t", "e", " ", "a", " ", "P", "y", "t", "h", "o", "n", " ", "f", "u",
                    "n", "c", "t", "i", "o", "n", " ", "t", "o", " ", "i", "m", "p", "l", "e", "m", "e",
                    "n", "t", " ", "b", "i", "n", "a", "r", "y", " ", "s", "e", "a", "r", "c", "h", " ",
                    "t", "r", "e", "e", " ", "w", "i", "t", "h", " ", "i", "n", "s", "e", "r", "t", ",",
                    " ", "d", "e", "l", "e", "t", "e", ",", " ", "a", "n", "d", " ", "s", "e", "a", "r",
                    "c", "h", " ", "m", "e", "t", "h", "o", "d", "s", ".">>]

\* what test_code_presence_increases_complexity puts after the prompt
CodeBlock == <<" ", Grave, Grave, Grave, "p", "y", "t", "h", "o", "n", "\n", "x", " ", "=", " ", "5",
               "\n", Grave, Grave, Grave>>

\* Composed prompts: the first `complex` of GenKeywords, then "list", then
\* "create", then "def", padded with x up to `length` characters, the
\* question marks last.
MaxComplex == 3
GenKeywords == <<COMPLEX_KEYWORDS[4], COMPLEX_KEYWORDS[2], COMPLEX_KEYWORDS[7],
                 COMPLEX_KEYWORDS[6], COMPLEX_KEYWORDS[1], COMPLEX_KEYWORDS[5]>>
GenLengths == {0, 98, 498}
GenMarks == {0, 1, 3}
GenShapes ==
    {d \in [complex : 0..MaxComplex, simple : BOOLEAN, creative : BOOLEAN,
            def : BOOLEAN, marks : GenMarks, length : GenLengths] :
        d.simple => d.complex <= 1}

RECURSIVE JoinWords(_, _)
JoinWords(words, n) ==
    IF n = 0 THEN <<>> ELSE JoinWords(words, n - 1) \o words[n] \o <<" ">>

GenText(d) ==
    LET words == JoinWords(GenKeywords, d.complex)
                   \o (IF d.simple THEN SIMPLE_KEYWORDS[2] \o <<" ">> ELSE <<>>)
                   \o (IF d.creative THEN <<"c", "r", "e", "a", "t", "e", " ">> ELSE <<>>)
                   \o (IF d.def THEN <<"d", "e", "f", " ">> ELSE <<>>)
        fill  == d.length - Len(words) - d.marks
    IN  words \o Pad("x", IF fill > 0 THEN fill ELSE 0) \o Pad("?", d.marks)

GenPrompts == {GenText(d) : d \in GenShapes}
NamedPrompts ==
    {TestPrompts[k] : k \in DOMAIN TestPrompts} \cup {PromptText[k] \o <<>> : k \in Prompts}

\* The prompts the code-presence comparison starts from, and every prompt an
\* estimate is taken of: those, and those with the code appended
PlainPrompts ==
    GenPrompts \cup NamedPrompts
      \cup {GenText(d) \o CodeFence : d \in {g \in GenShapes : g.length = 0}}
CodeTails == {CodeFence, CodeBlock}
ProbePrompts ==
    PlainPrompts \cup {p \o CodeFence : p \in PlainPrompts}
      \cup {p \o CodeBlock : p \in NamedPrompts}

\* score_factors on each of them, evaluated once
Factors == [p \in ProbePrompts |-> score_factors(p)]

\* Each direct call is made on a router as constructed (the tests' setup_method,
\* the gateway's start), so probe holds one call.
\* POST /api/v1/complexity with a prompt: the 200 response
ComplexityEndpoint(prompt) ==
    LET assessed == clamp_score(Factors[prompt])
        selected_model == SmartRouter_select_model(Self, assessed.score)
    IN  /\ probe = None
        /\ probe' = Some([call              |-> "complexity",
                          prompt            |-> prompt,
                          complexity        |-> assessed.score,
                          reasoning         |-> assessed.factors,
                          recommended_model |-> selected_model,
                          backend           |-> MODELS[selected_model].backend,
                          estimated_cost    |->
                              estimate_cost(prompt, selected_model, DefaultResponseLength)])
        /\ UNCHANGED <<router, req, tasks, sel>>

\* test_code_presence_increases_complexity: estimate_complexity of a prompt
\* and of the prompt with code after it
TestCodePresence(prompt, tail) ==
    /\ probe = None
    /\ prompt \o tail \in ProbePrompts
    /\ probe' = Some([call      |-> "code_presence",
                      prompt    |-> prompt,
                      tail      |-> tail,
                      simple    |-> clamp_score(Factors[prompt]).score,
                      with_code |-> clamp_score(Factors[prompt \o tail]).score])
    /\ UNCHANGED <<router, req, tasks, sel>>

\* TestCostEstimation: estimate_cost of a prompt and of a longer one, for the
\* same model and response length (None: the default is taken)
MaxPromptLen == 6
ResponseLengths == {None, Some(0), Some(1), Some(DefaultResponseLength)}
CostOf(prompt, model, response_length) ==
    estimate_cost(prompt, model,
                  IF response_length = None THEN DefaultResponseLength
                  ELSE Get(response_length))
TestCostEstimation(model, response_length, length, more) ==
    /\ probe = None
    /\ probe' = Some([call            |-> "cost",
                      model           |-> model,
                      response_length |-> response_length,
                      length          |-> length,
                      cost            |-> CostOf(Pad("x", length), model, response_length),
                      longer          |-> length + more,
                      longer_cost     |->
                          CostOf(Pad("x", length + more), model, response_length)])
    /\ UNCHANGED <<router, req, tasks, sel>>

EstNext ==
    \/ \E prompt \in ProbePrompts : ComplexityEndpoint(prompt)
    \/ \E prompt \in PlainPrompts, tail \in CodeTails : TestCodePresence(prompt, tail)
    \/ \E model \in ModelNames, response_length \in ResponseLengths,
          length \in 0..MaxPromptLen, more \in 0..MaxPromptLen :
            TestCostEstimation(model, response_length, length, more)

EstSpec == Init /\ [][EstNext]_vars

\* =================================================================== claims
\* A request that entered through process_request (not the gateway override)
Auto(r) == r.via = "process_request"
\* The request's RoutingDecision names a backend of that tier
Selected(r, tier) == r.decision # None /\ Get(r.decision).backend = tier
\* s is an initial segment of t
IsPrefix(s, t) == Len(s) <= Len(t) /\ \A i \in 1..Len(s) : s[i] = t[i]
\* The number of times a step occurs in a trace
StepCount(r, step) == Cardinality({i \in 1..Len(r.trace) : r.trace[i] = step})
\* The zero-cost backends of the policy in force
FreeBackends ==
    IF ternary_available THEN {"bitnet-2b", "mistral-7b-ternary"}
                         ELSE {"tinyllama", "phi2"}

\* C1: for every score in [0,1] and every configuration, select_model returns
\* a key of MODELS whose max_complexity is at least the score.
C1_SelectedBackendCapable ==
    sel # None =>
        /\ Get(sel).model \in DOMAIN MODELS
        /\ FLe(Get(sel).score, MODELS[Get(sel).model].max_complexity)

\* C1 witness: the standard policy gives phi2 for the score 0.6, phi2's limit.
C1_Witness ==
    /\ sel # None
    /\ ~ternary_available /\ use_local
    /\ Get(sel).score = Dec(6, 10)
    /\ Get(sel).model = "phi2"

\* C2: the two policies of select_model.  Ternary available: below 0.5
\* bitnet-2b, from 0.5 and below 0.8 mistral-7b-ternary, from 0.8
\* claude-sonnet, whatever use_local is.  Otherwise: claude-sonnet when
\* use_local is off or the score exceeds 0.6, else tinyllama below 0.3 and
\* phi2 from 0.3 to 0.6.
C2_PolicyTable ==
    sel # None =>
        LET c == Get(sel).score
            m == Get(sel).model
        IN  IF ternary_available
            THEN /\ FLt(c, Dec(5, 10)) => m = "bitnet-2b"
                 /\ FLe(Dec(5, 10), c) /\ FLt(c, Dec(8, 10)) => m = "mistral-7b-ternary"
                 /\ FLe(Dec(8, 10), c) => m = "claude-sonnet"
            ELSE /\ ~use_local \/ FLt(Dec(6, 10), c) => m = "claude-sonnet"
                 /\ use_local /\ FLt(c, Dec(3, 10)) => m = "tinyllama"
                 /\ use_local /\ FLe(Dec(3, 10), c) /\ FLe(c, Dec(6, 10)) => m = "phi2"

\* C2 witness: with ternary available and local routing off, the score 0.5
\* goes to mistral-7b-ternary.
C2_Witness ==
    /\ sel # None
    /\ ternary_available /\ ~use_local
    /\ Get(sel).score = Dec(5, 10)
    /\ Get(sel).model = "mistral-7b-ternary"

\* C3: with local routing enabled, select_model returns the metered cloud
\* backend only when no zero-cost backend of the policy in force has
\* max_complexity >= score.
C3_CheapestCapable ==
    (sel # None /\ use_local /\ Get(sel).model = "claude-sonnet") =>
        ~ \E m \in FreeBackends : FLe(Get(sel).score, MODELS[m].max_complexity)

\* C4: when process_request selected a ternary backend, the ternary call
\* failed and the cloud call succeeded, the result has backend "cloud" and
\* model "claude-sonnet", carries the cost of the reported tokens (positive
\* when a token is reported) and, when returned, the routing metadata of the
\* decision.
C4_FallbackTransparency ==
    \A w \in Workers :
        LET r == req[w] IN
        (Auto(r) /\ Selected(r, "ternary") /\ CallFailed(r, "ternary")
           /\ r.result # None) =>
            LET res    == Get(r.result)
                tokens == res.input_tokens + res.output_tokens
            IN  /\ res.backend = "cloud"
                /\ res.model = "claude-sonnet"
                /\ res.model # Get(r.decision).model
                /\ res.cost = 4 * tokens * MODELS["claude-sonnet"].cost_per_token
                /\ tokens > 0 => res.cost > 0
                /\ r.pc = "done" =>
                     /\ res.routing # None
                     /\ Get(res.routing).complexity = Get(r.decision).complexity
                     /\ Get(res.routing).reasoning = Get(r.decision).reasoning
                     /\ Get(res.routing).estimated_cost = Get(r.decision).estimated_cost

\* C4 witness: bitnet-2b was selected, its call failed, and the request has
\* returned a cloud result with a positive cost.
C4_Witness ==
    \E w \in Workers :
        /\ req[w].pc = "done"
        /\ Auto(req[w])
        /\ Get(req[w].decision).model = "bitnet-2b"
        /\ CallFailed(req[w], "ternary")
        /\ Get(req[w].result).backend = "cloud"
        /\ Get(req[w].result).cost > 0

\* C5 (as claimed): a process_request call that selected a ternary backend
\* and whose ternary call failed never ends in an error.
C5_NeverAnError ==
    \A w \in Workers :
        (Auto(req[w]) /\ Selected(req[w], "ternary") /\ CallFailed(req[w], "ternary"))
            => req[w].pc # "raised"

\* C5 (amended): such a call never raises the ternary failure.  It returns a
\* cloud result with routing metadata when the cloud strategy succeeds, and
\* raises the cloud strategy's own error (no credentials, or the cloud call
\* failed) otherwise.
C5_OnlyCloudErrors ==
    \A w \in Workers :
        LET r == req[w] IN
        (Auto(r) /\ Selected(r, "ternary") /\ CallFailed(r, "ternary")) =>
            /\ r.error \notin PostOutcomes \ {"ok"}
            /\ r.pc = "raised" =>
                 /\ r.error \in {NotConfigured} \cup (CloudOutcomes \ {"ok"})
                 /\ r.error = NotConfigured <=> ~anthropic_client
                 /\ r.error # NotConfigured => CallFailed(r, "claude")
                 /\ r.result = None
            /\ r.pc = "done" =>
                 /\ r.error = "none"
                 /\ Get(r.result).backend = "cloud"
                 /\ Get(r.result).routing # None
            /\ r.pc \in {"fallback", "attach", "log", "return", "done", "raised"}

\* C5 witness: mistral-7b-ternary was selected, its call timed out, and the
\* caller got a cloud result.
C5_Witness ==
    \E w \in Workers :
        /\ req[w].pc = "done"
        /\ Auto(req[w])
        /\ Get(req[w].decision).model = "mistral-7b-ternary"
        /\ req[w].calls[1] = Call("ternary", "timeout")
        /\ Get(req[w].result).backend = "cloud"

\* C6: when process_request selected a local backend and the local call
\* failed, the error reaches the caller, no cloud or ternary call is made
\* for the request and no result is returned.
C6_LocalNoFallback ==
    \A w \in Workers :
        LET r == req[w] IN
        (Auto(r) /\ Selected(r, "local") /\ CallFailed(r, "ollama")) =>
            /\ r.pc = "raised"
            /\ r.error = r.calls[1].outcome
            /\ CallsTo(r) = <<"ollama">>
            /\ StepCount(r, "execute_claude") = 0
            /\ StepCount(r, "execute_ternary") = 0
            /\ r.result = None

\* C6 witness: phi2 was selected and its call timed out.
C6_Witness ==
    \E w \in Workers :
        /\ Auto(req[w])
        /\ Selected(req[w], "local")
        /\ Get(req[w].decision).model = "phi2"
        /\ req[w].calls = <<Call("ollama", "timeout")>>
        /\ req[w].pc = "raised"

\* C7: without a cloud client, every invocation of the cloud strategy
\* (direct, through process_request, or as the ternary fallback) raises the
\* configuration error before any call to the provider, and is made once.
C7_NoCredentialsFailFast ==
    ~anthropic_client =>
        \A w \in Workers :
            LET r == req[w] IN
            /\ CallCount(r, "claude") = 0
            /\ StepCount(r, "execute_claude") <= 1
            /\ StepCount(r, "execute_claude") = 1 =>
                 /\ r.pc = "raised"
                 /\ r.error = NotConfigured
                 /\ r.result = None
                 /\ r.trace[Len(r.trace)] = "execute_claude"

\* C7 witness: the cloud strategy was entered as the ternary fallback and
\* raised the configuration error.
C7_Witness ==
    /\ ~anthropic_client
    /\ \E w \in Workers :
        /\ CallFailed(req[w], "ternary")
        /\ StepCount(req[w], "execute_claude") = 1
        /\ req[w].error = NotConfigured

\* C8: in one process_request call each backend is called at most once, at
\* most two calls are made, two only as a failed ternary call followed by
\* one cloud call, and never both a local and a cloud call.
C8_NoRetries ==
    \A w \in Workers :
        LET r == req[w] IN
        Auto(r) =>
            /\ \A to \in {"ternary", "ollama", "claude"} : CallCount(r, to) <= 1
            /\ Len(r.calls) <= 2
            /\ Len(r.calls) = 2 =>
                 /\ r.calls[1].to = "ternary" /\ r.calls[1].outcome # "ok"
                 /\ r.calls[2].to = "claude"
            /\ ~(CallCount(r, "ollama") > 0 /\ CallCount(r, "claude") > 0)

\* C8 witness: a request that made two calls.
C8_Witness ==
    \E w \in Workers : Auto(req[w]) /\ Len(req[w].calls) = 2

\* C9: once the backend execution of a process_request call has succeeded
\* and the metadata is attached, the recorder step and the return leave the
\* result as it is and raise nothing, whatever the recorder does.
C9_RecorderNeverAffects ==
    [][\A w \in Workers :
          (Auto(req[w]) /\ req[w].pc \in {"log", "return"}) =>
              /\ req'[w].pc \in {"log", "return", "done"}
              /\ req'[w].result = req[w].result
              /\ Get(req'[w].result).routing # None
              /\ req'[w].error = "none"]_vars

\* C9 witness: a request has returned its result although nothing was
\* recorded.
C9_Witness ==
    \E w \in Workers :
        /\ Auto(req[w])
        /\ req[w].pc = "done"
        /\ req[w].trace[Len(req[w].trace)] = "record"
        /\ tasks = <<>>
        /\ Get(req[w].result).routing # None

\* C10: a process_request call goes through estimate, select, cost, execute,
\* attach, record in this order; no backend is called before the decision,
\* the first strategy is the one of the selected tier, and the recorder step
\* comes once, last, and only after an execution that returned a result.
ExecuteSteps ==
    {<<"execute_ternary">>, <<"execute_ternary", "execute_claude">>,
     <<"execute_ollama">>, <<"execute_claude">>}
StrategyOf(tier) ==
    IF tier = "ternary" THEN "execute_ternary"
    ELSE IF tier = "local" THEN "execute_ollama"
    ELSE "execute_claude"
C10_StepOrder ==
    \A w \in Workers :
        LET r == req[w] IN
        Auto(r) =>
            /\ \E e \in ExecuteSteps :
                 IsPrefix(r.trace,
                          <<"estimate", "select", "cost">> \o e \o <<"attach", "record">>)
            /\ Len(r.calls) > 0 => r.decision # None
            /\ Len(r.trace) >= 4 =>
                 r.trace[4] = StrategyOf(MODELS[Get(r.decision).model].backend)
            /\ StepCount(r, "record") = 1 =>
                 /\ r.result # None
                 /\ r.pc \in {"return", "done"}
            /\ r.pc = "done" => StepCount(r, "record") = 1
            /\ r.pc = "raised" =>
                 StepCount(r, "record") = 0 /\ StepCount(r, "attach") = 0

\* C10 witness: a returned request that went through every step, the
\* ternary strategy first and the cloud strategy after it.
C10_Witness ==
    \E w \in Workers :
        /\ req[w].pc = "done"
        /\ req[w].trace = <<"estimate", "select", "cost", "execute_ternary",
                            "execute_claude", "attach", "record">>

\* ---------------------------------------------------------------------------
\* The direct calls recorded in probe
Probed(call) == probe # None /\ Get(probe).call = call

\* C11: for every prompt, the empty one included, the score the complexity
\* endpoint returns lies in [0, 1], while the sum of the four factors before
\* it is clamped lies in [-0.1, 1.3].
C11_ScoreInUnitInterval ==
    Probed("complexity") =>
        LET sum == Factors[Get(probe).prompt].score
        IN  /\ FLe(FZero, Get(probe).complexity)
            /\ FLe(Get(probe).complexity, Dec(10, 10))
            /\ FLe(FNeg(Dec(1, 10)), sum)
            /\ FLe(sum, Dec(13, 10))

\* a prompt whose factors sum to 1.3 has been scored 1.0
C11_Witness ==
    /\ Probed("complexity")
    /\ Factors[Get(probe).prompt].score = Dec(13, 10)
    /\ Get(probe).complexity = Dec(10, 10)

\* a prompt whose factors sum to -0.1 has been scored 0.0
C11_LowEnd ==
    /\ Probed("complexity")
    /\ Factors[Get(probe).prompt].score = FNeg(Dec(1, 10))
    /\ Get(probe).complexity = FZero

\* the response length a cost call assumes
Assumed(call) ==
    IF call.response_length = None THEN DefaultResponseLength
    ELSE Get(call.response_length)

\* C12: estimate_cost is exactly 0 for tinyllama and phi2 (local) and for
\* bitnet-2b and mistral-7b-ternary (ternary), whatever the prompt length and
\* the assumed response length; so is the estimated_cost the complexity
\* endpoint returns with a local or ternary recommendation.
C12_FreeBackendsCostNothing ==
    /\ Probed("cost") /\ MODELS[Get(probe).model].backend \in {"local", "ternary"}
         => Get(probe).cost = 0 /\ Get(probe).longer_cost = 0
    /\ Probed("complexity") /\ Get(probe).backend \in {"local", "ternary"}
         => Get(probe).estimated_cost = 0

\* a ternary model, a non-empty prompt and a non-zero response length
C12_Witness ==
    /\ Probed("cost")
    /\ MODELS[Get(probe).model].backend = "ternary"
    /\ Get(probe).length > 0
    /\ Assumed(Get(probe)) > 0
    /\ Get(probe).cost = 0

\* C13 as stated: for the cloud backend the cost is
\* (ceil(len(text)/4) + r) x per-token rate, r defaulting to 500, for every
\* prompt length. (A token is four cost units of length.)
C13_CeilingOfQuarterLength ==
    Probed("cost") /\ MODELS[Get(probe).model].backend = "cloud" =>
        Get(probe).cost =
            4 * (((Get(probe).length + 3) \div 4) + Assumed(Get(probe)))
              * MODELS[Get(probe).model].cost_per_token

\* C13 amended: for the cloud backend the cost is (len(text)/4 + r) x
\* per-token rate with len(text)/4 not rounded, r defaulting to 500; it equals
\* the rounded-up form exactly when len(text) is a multiple of 4.
C13_QuarterLengthUnrounded ==
    Probed("cost") /\ MODELS[Get(probe).model].backend = "cloud" =>
        LET rate    == MODELS[Get(probe).model].cost_per_token
            rounded == 4 * (((Get(probe).length + 3) \div 4) + Assumed(Get(probe))) * rate
        IN  /\ Get(probe).cost = (Get(probe).length + 4 * Assumed(Get(probe))) * rate
            /\ (Get(probe).cost = rounded) <=> (Get(probe).length % 4 = 0)
            /\ Get(probe).response_length = None =>
                 Get(probe).cost = (Get(probe).length + 4 * 500) * rate

\* the cloud model on a prompt of five characters, default response length
C13_Witness ==
    /\ Probed("cost")
    /\ MODELS[Get(probe).model].backend = "cloud"
    /\ Get(probe).response_length = None
    /\ Get(probe).length = 5
    /\ Get(probe).cost = (5 + 4 * 500) * 3

\* C14: for the cloud backend the estimated cost of a non-empty prompt is
\* strictly positive, and a longer prompt never costs less than a shorter one
\* (same model, same assumed response length).
C14_PositiveAndMonotone ==
    /\ Probed("cost") /\ MODELS[Get(probe).model].backend = "cloud" =>
         /\ Get(probe).length > 0 => Get(probe).cost > 0
         /\ Get(probe).longer > 0 => Get(probe).longer_cost > 0
         /\ Get(probe).cost <= Get(probe).longer_cost
    /\ Probed("complexity") /\ Get(probe).backend = "cloud"
         /\ Get(probe).prompt # <<>> => Get(probe).estimated_cost > 0

\* one character against more, no response tokens assumed
C14_Witness ==
    /\ Probed("cost")
    /\ MODELS[Get(probe).model].backend = "cloud"
    /\ Get(probe).response_length = Some(0)
    /\ Get(probe).length = 1
    /\ Get(probe).longer > 1
    /\ 0 < Get(probe).cost
    /\ Get(probe).cost < Get(probe).longer_cost

\* C15: for every prompt p, the score of p with a code fence marker (three
\* grave accents) appended is at least the score of p.
C15_FenceNeverLowers ==
    Probed("code_presence") /\ Get(probe).tail = CodeFence =>
        FLe(Get(probe).simple, Get(probe).with_code)

\* the fence has raised the score of a prompt that was not at 0.0
C15_Witness ==
    /\ Probed("code_presence")
    /\ Get(probe).tail = CodeFence
    /\ FLt(FZero, Get(probe).simple)
    /\ FLt(Get(probe).simple, Get(probe).with_code)

\* the standard policy: no ternary runtime
StandardPolicy == ~ternary_available

\* C16 as stated: a prompt followed by a fenced code block scores strictly
\* higher than the prompt alone.
C16_CodeBlockRaisesScore ==
    Probed("code_presence") /\ Get(probe).tail = CodeBlock =>
        FLt(Get(probe).simple, Get(probe).with_code)

\* C17 as stated: the explanation request about lists and tuples, in either
\* wording, scores within [0.3, 0.6] and, under the standard policy with local
\* routing enabled, is recommended phi2.
C17_ExplanationIsMidTier ==
    Probed("complexity")
      /\ Get(probe).prompt \in {TestPrompts.lists_in, TestPrompts.lists_of} =>
        /\ FLe(Dec(3, 10), Get(probe).complexity)
        /\ FLe(Get(probe).complexity, Dec(6, 10))
        /\ StandardPolicy /\ use_local => Get(probe).recommended_model = "phi2"

\* C18 as stated: every prompt that contains a code fence marker and the word
\* "implement" and is longer than 500 characters scores above 0.6 and, under
\* the standard policy, is recommended the cloud backend at a cost above 0.
C18_FencedImplementGoesToCloud ==
    Probed("complexity")
      /\ Contains(Get(probe).prompt, CodeFence)
      /\ Contains(ToLower(Get(probe).prompt), COMPLEX_KEYWORDS[4])
      /\ Len(Get(probe).prompt) > 500 =>
        /\ FLt(Dec(6, 10), Get(probe).complexity)
        /\ StandardPolicy =>
             Get(probe).backend = "cloud" /\ Get(probe).estimated_cost > 0

\* C19 as stated: the request to write a function implementing a binary
\* search tree scores above 0.6.
C19_CodeRequestIsComplex ==
    Probed("complexity") /\ Get(probe).prompt = TestPrompts.tree =>
        FLt(Dec(6, 10), Get(probe).complexity)

\* C20 as stated: the empty prompt scores exactly 0.1 and, under the standard
\* policy with local routing enabled, is recommended tinyllama at cost 0.
C20_EmptyPromptScoresTenth ==
    Probed("complexity") /\ Get(probe).prompt = <<>> =>
        /\ Get(probe).complexity = Dec(1, 10)
        /\ StandardPolicy /\ use_local =>
             Get(probe).recommended_model = "tinyllama" /\ Get(probe).estimated_cost = 0

\* C20 amended: the empty prompt scores exactly 0.2 (length factor 0.1 and the
\* neutral keyword factor 0.1, no code or form contribution) and, under the
\* standard policy with local routing enabled, is recommended tinyllama at
\* cost 0.
C20_EmptyPromptScoresFifth ==
    Probed("complexity") /\ Get(probe).prompt = <<>> =>
        /\ Get(probe).complexity = Dec(2, 10)
        /\ Get(probe).reasoning = <<"short prompt", "neutral keywords">>
        /\ StandardPolicy /\ use_local =>
             Get(probe).recommended_model = "tinyllama" /\ Get(probe).estimated_cost = 0

\* the empty prompt sent to a router with the standard policy and local routing
C20_Witness ==
    /\ Probed("complexity")
    /\ Get(probe).prompt = <<>>
    /\ StandardPolicy
    /\ use_local
    /\ Get(probe).backend = "local"

\* C21: the prompt "What is Python?" scores below 0.3 and, under the standard
\* policy with local routing enabled, is recommended tinyllama at cost 0.
C21_SimpleQuestionIsLocal ==
    Probed("complexity") /\ Get(probe).prompt = PromptText.simple =>
        /\ FLt(Get(probe).complexity, Dec(3, 10))
        /\ StandardPolicy /\ use_local =>
             /\ Get(probe).recommended_model = "tinyllama"
             /\ Get(probe).backend = "local"
             /\ Get(probe).estimated_cost = 0

\* "What is Python?" sent to a router with the standard policy and local
\* routing, and answered with tinyllama
C21_Witness ==
    /\ Probed("complexity")
    /\ Get(probe).prompt = PromptText.simple
    /\ StandardPolicy
    /\ use_local
    /\ Get(probe).recommended_model = "tinyllama"

\* ---------------------------------------------------------------------------
\* The models chat() accepts as an override
KnownOverrides == {"tinyllama", "phi2", "claude-sonnet"}
Manual(r) == r.via = "override" /\ r.model \in KnownOverrides

\* C22: a chat request that names tinyllama, phi2 or claude-sonnet is executed
\* by the strategy of that model, with one call, without estimate, selection
\* or cost estimate, and the result it returns carries routing metadata with
\* complexity 0 and the reasoning "Manual model selection" of that model.
C22_OverrideSkipsRouting ==
    \A w \in Workers :
        LET r == req[w] IN
        Manual(r) =>
            /\ r.assessed = None
            /\ r.decision = None
            /\ \A step \in {"estimate", "select", "cost", "record"} :
                 StepCount(r, step) = 0
            /\ \A i \in 1..Len(r.calls) :
                 r.calls[i].to = IF r.model = "claude-sonnet" THEN "claude" ELSE "ollama"
            /\ Len(r.calls) <= 1
            /\ r.result # None =>
                 /\ Len(r.calls) = 1
                 /\ Get(r.result).model = r.model
                 /\ Get(r.result).backend = MODELS[r.model].backend
            /\ r.pc \in {"return", "done"} =>
                 /\ Get(r.result).routing # None
                 /\ Get(Get(r.result).routing).complexity = FZero
                 /\ Get(Get(r.result).routing).reasoning.factors =
                        <<"Manual model selection", r.model>>
                 /\ Get(Get(r.result).routing).estimated_cost = Get(r.result).cost

\* an override to claude-sonnet has returned its result
C22_Witness ==
    \E w \in Workers :
        /\ Manual(req[w])
        /\ req[w].model = "claude-sonnet"
        /\ req[w].pc = "done"
        /\ req[w].calls = <<Call("claude", "ok")>>
        /\ Get(Get(req[w].result).routing).complexity = FZero

\* C23: a chat request that names a model outside tinyllama, phi2 and
\* claude-sonnet is answered 400 at once: no estimate, no strategy, no
\* outbound call, no recorder step, no result.
C23_UnknownOverrideRejected ==
    \A w \in Workers :
        LET r == req[w] IN
        /\ (r.via = "override" /\ r.model \notin KnownOverrides) =>
             /\ r.pc = "rejected"
             /\ r.calls = <<>>
             /\ r.trace = <<>>
             /\ r.assessed = None
             /\ r.decision = None
             /\ r.result = None
        /\ r.pc = "rejected" => r.via = "override" /\ r.model \notin KnownOverrides

\* an override to a model the router knows but chat() does not accept
C23_Witness ==
    \E w \in Workers :
        /\ req[w].pc = "rejected"
        /\ req[w].model = "bitnet-2b"
        /\ req[w].calls = <<>>

\* ---------------------------------------------------------------------------
\* C24: constructing a router never raises; ternary_available is true exactly
\* when use_ternary is set and the health request returned status 200 with a
\* body whose "ternary" flag is true; a failed or timed out request, another
\* status, a false, null or missing flag and an unreadable body all give
\* false; with use_ternary off no health request is made.
C24_ProbeNeverRaises ==
    Probed("construct") =>
        /\ Get(probe).raised = "none"
        /\ use_ternary <=> Get(probe).health # None
        /\ ternary_available <=>
             /\ Get(probe).health # None
             /\ Get(Get(probe).health).raised = "none"
             /\ Get(Get(probe).health).status = 200
             /\ Get(Get(probe).health).body = "true"

\* the health request timed out and the router was constructed without ternary
C24_Witness ==
    /\ Probed("construct")
    /\ use_ternary
    /\ Get(Get(probe).health).raised = "Timeout"
    /\ Get(probe).raised = "none"
    /\ ~ternary_available

\* the health request was answered 200 with the flag set
C24_Available ==
    /\ Probed("construct")
    /\ Get(probe).health # None
    /\ Get(Get(probe).health).status = 200
    /\ ternary_available

\* The RoutingDecision route_request builds on a router for a prompt
RouteAlone(self, p) ==
    LET model == SmartRouter_select_model(self, Assessment[p].score)
    IN  [model          |-> model,
         complexity     |-> Assessment[p].score,
         estimated_cost |-> CostEstimate[p][model],
         reasoning      |-> Assessment[p],
         backend        |-> MODELS[model].backend]

\* C29: routers that differ only in complexity_threshold give the same
\* select_model result for every score and the same RoutingDecision for every
\* prompt: what the constructed router returned is what a router with any
\* other threshold returns.
C29_ThresholdHasNoEffect ==
    \A t \in ThresholdArgs :
        LET other == [Self EXCEPT !.complexity_threshold = t]
        IN  /\ sel # None =>
                 Get(sel).model = SmartRouter_select_model(other, Get(sel).score)
            /\ \A w \in Workers :
                 req[w].decision # None =>
                     Get(req[w].decision) = RouteAlone(other, req[w].prompt)

\* a router constructed with threshold 0.1 and local routing has kept a prompt
\* scored above 0.1 on a local model
C29_Witness ==
    /\ Probed("construct")
    /\ complexity_threshold = Dec(1, 10)
    /\ ~ternary_available
    /\ use_local
    /\ \E w \in Workers :
         /\ req[w].decision # None
         /\ FLt(Dec(1, 10), Get(req[w].decision).complexity)
         /\ Get(req[w].decision).backend = "local"

\* ---------------------------------------------------------------------------
\* A served GET /api/v1/stats, and what the export did
Stats(r) == r.via = "stats"
Exported(r) == r.calls[1].outcome = "exported"

\* C27: get_stats never raises; it returns all-zero statistics whenever the
\* task binary is absent, exits with an error, prints nothing or prints what
\* cannot be read as a list of tasks, and with no recorded request the
\* local_percentage is 0, no division being made.
C27_StatsDegradeToZero ==
    \A w \in Workers :
        LET r == req[w] IN
        Stats(r) =>
            /\ r.pc = "done"
            /\ r.error = "none"
            /\ r.result # None
            /\ ~Exported(r) => Get(r.result) = ZeroStats
            /\ Get(r.result).total_requests = 0 => Get(r.result) = ZeroStats
            /\ Get(r.result).local_percentage[2] > 0

\* the export printed what is no JSON although a request had been recorded
C27_Witness ==
    \E w \in Workers :
        /\ Stats(req[w])
        /\ req[w].calls[1].outcome = "unparseable"
        /\ tasks # <<>>
        /\ Get(req[w].result) = ZeroStats

\* C30: get_stats counts every recorded request in total_requests, in
\* local_requests exactly those whose decision named tinyllama or phi2, in
\* cloud_requests exactly those whose decision named claude-sonnet, and a
\* request whose decision named a ternary model in neither, whatever backend
\* executed it; so local_requests + cloud_requests <= total_requests, with
\* equality exactly when no ternary decision was recorded.
C30_StatsCountDecisions ==
    \A w \in Workers :
        LET r == req[w] IN
        (Stats(r) /\ r.pc = "done" /\ Exported(r)) =>
            LET st      == Get(r.result)
                Named(S) == Cardinality({i \in 1..Len(tasks) : tasks[i].model \in S})
            IN  /\ st.total_requests = Len(tasks)
                /\ st.local_requests = Named({"tinyllama", "phi2"})
                /\ st.cloud_requests = Named({"claude-sonnet"})
                /\ st.local_requests + st.cloud_requests <= st.total_requests
                /\ st.local_requests + st.cloud_requests = st.total_requests
                     <=> Named({"bitnet-2b", "mistral-7b-ternary"}) = 0
                /\ st.local_percentage = <<100 * st.local_requests, st.total_requests>>
                     \/ st.total_requests = 0

\* a request decided for bitnet-2b and paid for at the cloud was recorded, and
\* the statistics count it as neither local nor cloud
C30_Witness ==
    \E w \in Workers :
        /\ Stats(req[w])
        /\ Exported(req[w])
        /\ Len(tasks) > 0
        /\ tasks[1].model = "bitnet-2b"
        /\ tasks[1].cost > 0
        /\ Get(req[w].result).total_requests = Len(tasks)
        /\ Get(req[w].result).local_requests = 0
        /\ Get(req[w].result).cloud_requests = 0

\* ---------------------------------------------------------------------------
\* A process_request that has reached its execute_* call
Dispatched(r) ==
    /\ r.via = "process_request"
    /\ r.decision # None
    /\ r.pc \notin {"idle", "estimate", "select", "cost", "execute"}

\* Every dispatched request of score < 0.8 on a router whose ternary server
\* was found available has called the ternary endpoint first.
TernaryFirst ==
    \A w \in Workers :
        LET r == req[w] IN
        (Dispatched(r) /\ ternary_available
           /\ FLt(Get(r.decision).complexity, Dec(8, 10))) =>
            /\ Len(r.calls) >= 1
            /\ r.calls[1].to = "ternary"

\* C25: the router's fields are read-only after construction: no step of a
\* request, an override or get_stats changes use_local, complexity_threshold,
\* use_ternary, ternary_available or the cloud client; a failed ternary call
\* leaves ternary_available set, so every request of score < 0.8 is sent to
\* the ternary endpoint first.
C25_RouterReadOnly ==
    /\ []TernaryFirst
    /\ [][router' = router]_vars

\* a request whose ternary call failed has gone on to the cloud, and the
\* router still holds the ternary server to be available
C25_Witness ==
    \E w \in Workers :
        /\ Dispatched(req[w])
        /\ CallFailed(req[w], "ternary")
        /\ ternary_available
        /\ req[w].pc \in {"fallback", "attach", "log", "raised"}

\* ---------------------------------------------------------------------------
\* The scores the policy in force sends to the cloud: >= 0.8 under the
\* ternary policy, > 0.6 under the standard policy.
CloudScore(complexity) ==
    IF ternary_available THEN FLe(Dec(8, 10), complexity)
    ELSE FLt(Dec(6, 10), complexity)

\* C28: select_model does not consult the cloud credentials: on a router
\* without API key a process_request whose score is > 0.6 (standard policy) or
\* >= 0.8 (ternary policy) is still decided for claude-sonnet, and it ends
\* with the configuration error, having called no backend and got no result.
C28_SelectionIgnoresCredentials ==
    \A w \in Workers :
        LET r == req[w] IN
        (r.via = "process_request" /\ ~anthropic_client /\ r.assessed # None
           /\ CloudScore(Get(r.assessed).score)) =>
            /\ r.pc \notin {"estimate", "select"} => r.model = "claude-sonnet"
            /\ r.decision # None => Get(r.decision).model = "claude-sonnet"
            /\ r.calls = <<>>
            /\ r.result = None
            /\ r.pc \in {"select", "cost", "execute", "raised"}
            /\ r.pc = "raised" => r.error = NotConfigured

\* under the standard policy with local models in use, the prompt of score
\* just above 0.6 has failed with the configuration error
C28_Witness ==
    \E w \in Workers :
        /\ req[w].via = "process_request"
        /\ ~anthropic_client
        /\ ~ternary_available
        /\ use_local
        /\ req[w].assessed # None
        /\ FLt(Dec(6, 10), Get(req[w].assessed).score)
        /\ FLt(Get(req[w].assessed).score, Dec(7, 10))
        /\ req[w].pc = "raised"
        /\ req[w].error = NotConfigured

\* under the ternary policy a prompt of score >= 0.8 has failed likewise
C28_TernaryWitness ==
    \E w \in Workers :
        /\ req[w].via = "process_request"
        /\ ~anthropic_client
        /\ ternary_available
        /\ req[w].assessed # None
        /\ FLe(Dec(8, 10), Get(req[w].assessed).score)
        /\ req[w].pc = "raised"
        /\ req[w].error = NotConfigured

\* ---------------------------------------------------------------------------
\* process_request run alone on a router, for a prompt, against the backend
\* responses given in the order the call meets them (tokens: what the cloud
\* reports as usage when it answers): the decision, the backends called, and
\* the result returned or the error raised.
ProcessAlone(self, p, responses, tokens) ==
    LET d       == RouteAlone(self, p)
        routing == Some([complexity |-> d.complexity, reasoning |-> d.reasoning,
                         estimated_cost |-> d.estimated_cost])
        Returned(to, result) ==
            [decision |-> d, to |-> to, error |-> "none",
             result |-> Some([result EXCEPT !.routing = routing])]
        Raised(to, error) ==
            [decision |-> d, to |-> to, error |-> error, result |-> None]
        Cloud(to, rest) ==
            IF ~self.anthropic_client THEN Raised(to, NotConfigured)
            ELSE IF rest = <<>> THEN Raised(to, "no response")
            ELSE IF Head(rest) = "ok"
                 THEN Returned(Append(to, "claude"), ClaudeResult(tokens[1], tokens[2]))
                 ELSE Raised(Append(to, "claude"), Head(rest))
    IN  IF d.backend = "cloud" THEN Cloud(<<>>, responses)
        ELSE IF responses = <<>> THEN Raised(<<>>, "no response")
        ELSE IF d.backend = "ternary"
             THEN (IF Head(responses) = "ok"
                   THEN Returned(<<"ternary">>, TernaryResult(d.model))
                   ELSE Cloud(<<"ternary">>, Tail(responses)))
             ELSE (IF Head(responses) = "ok"
                   THEN Returned(<<"ollama">>, OllamaResult(d.model))
                   ELSE Raised(<<"ollama">>, Head(responses)))

\* The responses a request got from the backends, in order
Responses(r) == [i \in 1..Len(r.calls) |-> r.calls[i].outcome]
\* The usage the cloud reported to a request it answered
Usage(r) ==
    IF r.result # None
    THEN <<Get(r.result).input_tokens, Get(r.result).output_tokens>>
    ELSE <<0, 0>>

\* A process_request call that has returned or raised is what the call alone
\* gives for its prompt and its backend responses.
AsAlone ==
    \A w \in Workers :
        LET r == req[w] IN
        (r.via = "process_request" /\ r.pc \in {"done", "raised"}) =>
            LET alone == ProcessAlone(Self, r.prompt, Responses(r), Usage(r))
            IN  /\ r.decision = Some(alone.decision)
                /\ CallsTo(r) = alone.to
                /\ r.result = alone.result
                /\ r.error = alone.error

\* A step is taken by one call and leaves the other calls as they are.
OneCallSteps ==
    \E w \in Workers : \A v \in Workers \ {w} : req'[v] = req[v]

\* C26: concurrent process_request calls on one router are independent: under
\* every interleaving of their steps each call's decision, backend calls and
\* returned result or raised error are those of the call run alone against
\* the same backend responses, and no step of a call touches another call.
C26_ConcurrentCallsIndependent ==
    /\ []AsAlone
    /\ [][OneCallSteps]_vars

\* two calls with different prompts were in flight together, the other still
\* unfinished and holding a different score, when this one returned after a
\* ternary failure served by the cloud
C26_Witness ==
    \E w \in Workers, v \in Workers :
        /\ w # v
        /\ req[w].via = "process_request"
        /\ req[w].pc = "done"
        /\ CallsTo(req[w]) = <<"ternary", "claude">>
        /\ req[v].via = "process_request"
        /\ req[v].pc \in {"select", "cost", "execute", "fallback", "attach", "log"}
        /\ req[v].prompt # req[w].prompt
        /\ Get(req[v].assessed).score # Get(req[w].assessed).score

====
